---- MODULE Spec2Model ----
(***************************************************************************)
(* The glyph-mosaic post-processing effect of ascii-shader:                *)
(*   - AsciiEffect (src/src/App.jsx): the constructor and                  *)
(*     createCharactersTexture, which rasterises the character set into a  *)
(*     16 x 16 atlas;                                                      *)
(*   - mainImage (src/src/ascii.shader): the per-fragment stage;           *)
(*   - Scene (src/src/App.jsx): the host that memoises the effect on the   *)
(*     `chars` control;                                                    *)
(*   - RotatingMesh (src/src/App.jsx): the auto-rotation accumulator.      *)
(*                                                                         *)
(* Four specifications share the variables: Spec (Scene), ShaderSpec (the  *)
(* effect for every character set and both invert settings), ConfigSpec (a *)
(* host that reconfigures the effect) and MeshSpec (RotatingMesh).         *)
(*                                                                         *)
(* Shader floats are modelled as exact rationals <<num, den>>, den > 0, in *)
(* lowest terms, so floor, mod, smoothstep and mix are computed as GLSL    *)
(* defines them, without float rounding.                                   *)
(***************************************************************************)
EXTENDS Integers, Sequences, FiniteSets, TLC

VARIABLES
    chars,      \* Scene: value of the leva control `chars` (sequence of code units)
    effect,     \* the AsciiEffect handed to <EffectComposer>, or NoEffect
    scene,      \* "mounted" | "crashed" (an exception left Scene's render)
    lastBuild,  \* what the most recent `new AsciiEffect(...)` did
    resolution, \* the composer's `resolution` uniform, <<width, height>> in pixels
    frag,       \* the most recent mainImage evaluation, or NoFrag
    memo,       \* Scene's useMemo: how often the factory ran, how often `chars` changed
    config,     \* the configuration the host asked for
    mesh        \* RotatingMesh: its props, accumulatedRotation and the mesh's rotation

vars == <<chars, effect, scene, lastBuild, resolution, frag, memo, config, mesh>>

----------------------------------------------------------------------------
(* Bounds of the model *)

\* character-set lengths 0..MaxLen are enumerated (plus the atlas capacity and one more)
MaxLen == 21
\* uv.x is sampled at i/UvSteps, i in 0..UvSteps, plus the three points of the wipe band
UvSteps == 40
\* uv.y is sampled at j/UvStepsY
UvStepsY == 10
\* solid input images have channel values k/GreyMax
GreyMax == 20
\* code units of generated character sets cycle through this many symbols
AlphabetSize == 64
\* Scene's useMemo factory runs at most this many times in a run
MaxBuilds == 2
\* the accumulated rotation stays within -MaxAngle..MaxAngle (hundredths of a radian)
MaxAngle == 4
\* 'Snap to Sliders' is pressed at most this many times in a run
MaxResets == 2

----------------------------------------------------------------------------
(* Exact rational arithmetic standing for GLSL float arithmetic *)

RECURSIVE Gcd(_, _)
Gcd(a, b) == IF b = 0 THEN a ELSE Gcd(b, a % b)

Abs(n) == IF n < 0 THEN -n ELSE n

\* n/d in lowest terms with a positive denominator (d # 0)
Rat(n, d) ==
    LET s == IF d < 0 THEN -1 ELSE 1
        g == Gcd(Abs(n), Abs(d))
    IN  <<(s * n) \div g, (s * d) \div g>>

float(n) == <<n, 1>>
Add(p, q) ==
    \* over the least common denominator, so that intermediate products stay small
    LET g == Gcd(p[2], q[2])
    IN  Rat(p[1] * (q[2] \div g) + q[1] * (p[2] \div g), (p[2] \div g) * q[2])
Neg(p) == <<-p[1], p[2]>>
Sub(p, q) == Add(p, Neg(q))
Mul(p, q) ==
    \* cross-cancel first so that intermediate products stay small
    LET a == Rat(p[1], q[2])
        b == Rat(q[1], p[2])
    IN  Rat(a[1] * b[1], a[2] * b[2])
Div(p, q) == Mul(p, Rat(q[2], q[1]))
Le(p, q) == p[1] * q[2] <= q[1] * p[2]
Lt(p, q) == p[1] * q[2] < q[1] * p[2]

\* GLSL built-ins
floor(p) == float(p[1] \div p[2])
max(p, q) == IF Le(p, q) THEN q ELSE p
min(p, q) == IF Le(p, q) THEN p ELSE q
clamp(p, lo, hi) == min(max(p, lo), hi)
mod(p, q) == Sub(p, Mul(q, floor(Div(p, q))))
mix(x, y, a) == Add(Mul(x, Sub(float(1), a)), Mul(y, a))
smoothstep(edge0, edge1, x) ==
    LET t == clamp(Div(Sub(x, edge0), Sub(edge1, edge0)), float(0), float(1))
    IN  Mul(Mul(t, t), Sub(float(3), Mul(float(2), t)))

----------------------------------------------------------------------------
(* GlyphAtlasBuilder: AsciiEffect.createCharactersTexture and the constructor *)

\* JavaScript null (a record, so that it compares with objects)
NULL == [null |-> TRUE]
\* no exception
NoError == "none"

\* const size = 1024; const rows = 16; const step = size / rows
size == 1024
rows == 16
step == size \div rows

\* fillText with the row taken from i % rows as well (every glyph on the diagonal)
fillTextDiagonal(characters, i) ==
    LET x == i % rows
        y == i % rows
    IN  [char |-> characters[i + 1],
         x    |-> x * step + step \div 2,
         y    |-> y * step + step \div 2]

\* One context.fillText(char, x, y) call of the loop, for the 0-based index i:
\* x = i % rows, y = Math.floor(i / rows), drawn at the centre of cell (x, y).
fillText(characters, i) ==
    LET x == i % rows
        y == i \div rows
    IN  [char |-> characters[i + 1],
         x    |-> x * step + step \div 2,
         y    |-> y * step + step \div 2]

\* createCharactersTexture without the `if (!context) throw`: a blank texture
\* comes back when there is no context
createCharactersTextureUnchecked(characters, fontSize, context2d) ==
    [threw |-> FALSE, error |-> NoError,
     texture |->
       [font        |-> fontSize,
        glyphs      |-> IF context2d
                        THEN [k \in 1..Len(characters) |-> fillText(characters, k - 1)]
                        ELSE <<>>,
        wrapS       |-> "RepeatWrapping",
        wrapT       |-> "RepeatWrapping",
        minFilter   |-> "NearestFilter",
        magFilter   |-> "NearestFilter",
        needsUpdate |-> TRUE]]

\* createCharactersTexture(characters, fontSize).  context2d is what
\* canvas.getContext("2d") gave: TRUE for a context, FALSE for null.
createCharactersTexture(characters, fontSize, context2d) ==
    IF ~context2d
    THEN [threw |-> TRUE, error |-> "Context not available", texture |-> NULL]
    ELSE [threw |-> FALSE, error |-> NoError,
          texture |->
            [font        |-> fontSize,
             glyphs      |-> [k \in 1..Len(characters) |-> fillText(characters, k - 1)],
             wrapS       |-> "RepeatWrapping",
             wrapT       |-> "RepeatWrapping",
             minFilter   |-> "NearestFilter",
             magFilter   |-> "NearestFilter",
             needsUpdate |-> TRUE]]

\* a constructor that returns without the `uniforms.get("uCharacters").value = ...`
\* assignment: the uniform keeps its initial null
AsciiEffectUnassigned(opts, context2d) ==
    LET uniforms == [uCharacters      |-> NULL,
                     uCellSize        |-> opts.cellSize,
                     uCharactersCount |-> Len(opts.characters),
                     uColor           |-> opts.color,
                     uInvert          |-> opts.invert]
        built == createCharactersTexture(opts.characters, opts.fontSize, context2d)
    IN  IF built.threw
        THEN [returned |-> FALSE, error |-> built.error, texture |-> built.texture,
              context |-> context2d, object |-> uniforms]
        ELSE [returned |-> TRUE, error |-> NoError, texture |-> built.texture,
              context |-> context2d, object |-> uniforms]

\* new AsciiEffect({characters, fontSize, cellSize, color, invert}).
\* `object` is the effect as far as the constructor got; `returned` says whether
\* the `new` expression completed and the caller received `object`.
AsciiEffect(opts, context2d) ==
    LET uniforms == [uCharacters      |-> NULL,
                     uCellSize        |-> opts.cellSize,
                     uCharactersCount |-> Len(opts.characters),
                     uColor           |-> opts.color,
                     uInvert          |-> opts.invert]
        built == createCharactersTexture(opts.characters, opts.fontSize, context2d)
    IN  IF built.threw
        THEN [returned |-> FALSE, error |-> built.error, texture |-> built.texture,
              context |-> context2d, object |-> uniforms]
        ELSE [returned |-> TRUE, error |-> NoError, texture |-> built.texture,
              context |-> context2d,
              object |-> [uniforms EXCEPT !.uCharacters = built.texture]]

\* What is recorded of a constructor call: whether getContext gave a context,
\* whether `new` completed, the error it threw, whether createCharactersTexture
\* returned a texture, whether the uCharacters uniform of the object was
\* assigned one, and the count uniform.
Outcome(build) ==
    [context  |-> build.context,
     returned |-> build.returned,
     error    |-> build.error,
     texture  |-> build.texture # NULL,
     assigned |-> build.object.uCharacters # NULL,
     count    |-> build.object.uCharactersCount]

----------------------------------------------------------------------------
(* MosaicCompositor: mainImage of ascii.shader *)

\* const vec2 SIZE = vec2(16.)
SIZE == 16

\* vectors are tuples of rationals, colours are records of rationals
vec2(x, y) == <<x, y>>
vec4(r, g, b, a) == [r |-> r, g |-> g, b |-> b, a |-> a]

\* greyscale(color): mix(color, vec3(g), 1.0) with g = dot(color, vec3(0.299, 0.587, 0.114))
greyscale(color) ==
    LET g == Add(Add(Mul(color.r, Rat(299, 1000)), Mul(color.g, Rat(587, 1000))),
                 Mul(color.b, Rat(114, 1000)))
    IN  [r |-> mix(color.r, g, float(1)),
         g |-> mix(color.g, g, float(1)),
         b |-> mix(color.b, g, float(1))]

\* Input images.  A solid image has one colour everywhere; the ramp is a
\* horizontal grey gradient whose value at uv is uv.x.
Solid(color) == [kind |-> "solid", color |-> color]
Ramp == [kind |-> "ramp", color |-> vec4(float(0), float(0), float(0), float(1))]

\* texture2D(inputBuffer, uv): the render target is clamped to its edge
texture2D(inputBuffer, uv) ==
    IF inputBuffer.kind = "solid"
    THEN inputBuffer.color
    ELSE LET u == clamp(uv[1], float(0), float(1))
         IN  vec4(u, u, u, float(1))

\* the address clamped to the texture's edge instead of wrapped (ClampToEdgeWrapping)
texelOfClamped(charUV) ==
    LET last == Rat(size - 1, size)
        u == clamp(charUV[1], float(0), last)
        v == clamp(charUV[2], float(0), last)
    IN  <<floor(Mul(u, float(size)))[1], size - 1 - floor(Mul(v, float(size)))[1]>>

\* The canvas pixel <<x, y from the top>> that the address charUV reads:
\* wrapS = wrapT = RepeatWrapping takes the fractional part, and the canvas'
\* top row is at v = 1.
texelOf(charUV) ==
    LET u == Sub(charUV[1], floor(charUV[1]))
        v == Sub(charUV[2], floor(charUV[2]))
    IN  <<floor(Mul(u, float(size)))[1], size - 1 - floor(Mul(v, float(size)))[1]>>

\* texture2D(uCharacters, charUV): RepeatWrapping on both axes, NearestFilter,
\* and the canvas' top row at v = 1 (a CanvasTexture is flipped vertically).
\* cell is the atlas grid cell <<column, row from the top>> of the texel; drawn
\* is the set of 0-based indices whose fillText centre lies in that cell; the
\* texel is `ink` (the glyph's coverage there) if a glyph was drawn, else 0.
texture2DCharacters(uCharacters, charUV, ink) ==
    LET px == texelOf(charUV)[1]
        py == texelOf(charUV)[2]
        drawn == IF uCharacters = NULL
                 THEN {}
                 ELSE {k - 1 : k \in {j \in 1..Len(uCharacters.glyphs) :
                          /\ uCharacters.glyphs[j].x \div step = px \div step
                          /\ uCharacters.glyphs[j].y \div step = py \div step}}
    IN  [cell  |-> <<px \div step, py \div step>>,
         drawn |-> drawn,
         r     |-> IF drawn = {} THEN float(0) ELSE ink]

\* a band end as far from 0.5 as its start
transitionEndSymmetric == Add(Rat(1, 2), Div(Rat(1, 10), float(16)))

\* float boundarySize = 0.1 and the two edges of the wipe band
boundarySize == Rat(1, 10)
transitionStart == Sub(Rat(1, 2), Div(boundarySize, float(16)))
transitionEnd == Add(Rat(1, 2), Div(boundarySize, float(8)))

\* the invert flag ignored
invertGreyIgnored(uInvert, greyscaled) == greyscaled

\* lines 25-27: if (uInvert) greyscaled = 1.0 - greyscaled
invertGrey(uInvert, greyscaled) ==
    IF uInvert THEN Sub(float(1), greyscaled) ELSE greyscaled

\* the grey scale read with the wrong polarity
rawIndexReversed(uCharactersCount, greyscaled) ==
    floor(Mul(float(uCharactersCount - 1), Sub(float(1), greyscaled)))

\* the count itself as the multiplier, not count - 1
rawIndexCount(uCharactersCount, greyscaled) ==
    floor(Mul(float(uCharactersCount), greyscaled))

\* line 30: floor((uCharactersCount - 1.0) * greyscaled)
rawIndex(uCharactersCount, greyscaled) ==
    floor(Mul(float(uCharactersCount - 1), greyscaled))

\* the ratio without its lower limit of 1
scaleFactorUnclamped(uCharactersCount) ==
    Div(float(uCharactersCount), float(20))

\* line 34: max(1.0, float(uCharactersCount) / 20.0)
scaleFactor(uCharactersCount) ==
    max(float(1), Div(float(uCharactersCount), float(20)))

\* lines 30-35: the glyph index selected for a (possibly inverted) grey value
characterIndex(uCharactersCount, greyscaled) ==
    floor(Mul(rawIndex(uCharactersCount, greyscaled), scaleFactor(uCharactersCount)))

\* the band of the shader's comment, 0.45 to 0.55
blendFactorWide(uvx) == smoothstep(Rat(45, 100), Rat(55, 100), uvx)

\* line 51: smoothstep(transitionStart, transitionEnd, uv.x)
blendFactor(uvx) == smoothstep(transitionStart, transitionEnd, uvx)

\* mainImage is written as its successive sections; each takes the record f of
\* the locals computed so far and adds its own.

\* the snap without the 0.5: the cell's lower corner instead of its centre
quantizeCorner(u, res, inputBuffer, uv) ==
    LET cell == vec2(Div(float(res[1]), float(u.uCellSize)),
                     Div(float(res[2]), float(u.uCellSize)))
        grid(c) == vec2(Div(float(1), c[1]), Div(float(1), c[2]))
        snap(g) == vec2(Mul(g[1], floor(Div(uv[1], g[1]))),
                        Mul(g[2], floor(Div(uv[2], g[2]))))
        sampled(c, p) == [inputBuffer |-> inputBuffer, uv |-> uv, cell |-> c,
                          pixelizedUV |-> p,
                          pixelized |-> texture2D(inputBuffer, p)]
        at(c) == sampled(c, snap(grid(c)))
    IN  at(cell)

\* lines 19-22: cell, grid, pixelizedUV, pixelized
quantize(u, res, inputBuffer, uv) ==
    LET cell == vec2(Div(float(res[1]), float(u.uCellSize)),
                     Div(float(res[2]), float(u.uCellSize)))
        grid(c) == vec2(Div(float(1), c[1]), Div(float(1), c[2]))
        snap(g) == vec2(Mul(g[1], Add(Rat(1, 2), floor(Div(uv[1], g[1])))),
                        Mul(g[2], Add(Rat(1, 2), floor(Div(uv[2], g[2])))))
        sampled(c, p) == [inputBuffer |-> inputBuffer, uv |-> uv, cell |-> c,
                          pixelizedUV |-> p,
                          pixelized |-> texture2D(inputBuffer, p)]
        at(c) == sampled(c, snap(grid(c)))
    IN  at(cell)

\* lines 23-35: greyscaled, characterIndex, scaleFactor
selectGlyph(u, f) ==
    LET select(greyscaled) ==
            [greyscaled     |-> greyscaled,
             rawIndex       |-> rawIndex(u.uCharactersCount, greyscaled),
             scaleFactor    |-> scaleFactor(u.uCharactersCount),
             characterIndex |-> characterIndex(u.uCharactersCount, greyscaled)]
    IN  f @@ [count |-> u.uCharactersCount, invert |-> u.uInvert]
          @@ select(invertGrey(u.uInvert, greyscale(f.pixelized).r))

\* charUV without the one-cell shift down, - vec2(0., 1. / SIZE)
lookupUVUnshifted(cell, uv, index) ==
    LET characterPosition == vec2(mod(index, float(SIZE)), floor(Div(index, float(SIZE))))
        address(offset) ==
            vec2(Add(mod(Mul(uv[1], Div(cell[1], float(SIZE))), Rat(1, SIZE)), offset[1]),
                 Add(mod(Mul(uv[2], Div(cell[2], float(SIZE))), Rat(1, SIZE)),
                     offset[2]))
    IN  address(vec2(Div(characterPosition[1], float(SIZE)),
                     Div(Neg(characterPosition[2]), float(SIZE))))

\* lines 38-40: characterPosition, offset, charUV
lookupUV(cell, uv, index) ==
    LET characterPosition == vec2(mod(index, float(SIZE)), floor(Div(index, float(SIZE))))
        address(offset) ==
            vec2(Add(mod(Mul(uv[1], Div(cell[1], float(SIZE))), Rat(1, SIZE)), offset[1]),
                 Add(Sub(mod(Mul(uv[2], Div(cell[2], float(SIZE))), Rat(1, SIZE)),
                         Rat(1, SIZE)),
                     offset[2]))
    IN  address(vec2(Div(characterPosition[1], float(SIZE)),
                     Div(Neg(characterPosition[2]), float(SIZE))))

\* the glyph painted in the uColor tint instead of the cell's colour
recolorTinted(u, f, charUV, ink) ==
    LET tint == IF u.uColor = "#ffffff"
                THEN vec4(float(1), float(1), float(1), float(1))
                ELSE vec4(float(0), float(1), float(0), float(1))
        masked(sample) ==
            [charUV         |-> charUV,
             atlasCell      |-> sample.cell,
             drawn          |-> sample.drawn,
             texel          |-> sample.r,
             asciiCharacter |-> vec4(Mul(tint.r, sample.r),
                                     Mul(tint.g, sample.r),
                                     Mul(tint.b, sample.r),
                                     f.pixelized.a)]
    IN  f @@ masked(texture2DCharacters(u.uCharacters, charUV, ink))

\* lines 41-44: asciiCharacter
recolor(u, f, charUV, ink) ==
    LET masked(sample) ==
            [charUV         |-> charUV,
             atlasCell      |-> sample.cell,
             drawn          |-> sample.drawn,
             texel          |-> sample.r,
             asciiCharacter |-> vec4(Mul(f.pixelized.r, sample.r),
                                     Mul(f.pixelized.g, sample.r),
                                     Mul(f.pixelized.b, sample.r),
                                     f.pixelized.a)]
    IN  f @@ masked(texture2DCharacters(u.uCharacters, charUV, ink))

\* lines 46-53: blendFactor, originalColor, outputColor
composite(f, inputBuffer, blend, originalColor) ==
    f @@ [blendFactor   |-> blend,
          originalColor |-> originalColor,
          outputColor   |-> vec4(mix(originalColor.r, f.asciiCharacter.r, blend),
                                 mix(originalColor.g, f.asciiCharacter.g, blend),
                                 mix(originalColor.b, f.asciiCharacter.b, blend),
                                 mix(originalColor.a, f.asciiCharacter.a, blend))]

lookup(u, f, ink) == recolor(u, f, lookupUV(f.cell, f.uv, f.characterIndex), ink)

\* mainImage(inputColor, uv, outputColor) with the uniforms u and `resolution`.
\* The record holds every local of the function and outputColor.
mainImage(u, res, inputBuffer, uv, ink) ==
    composite(lookup(u, selectGlyph(u, quantize(u, res, inputBuffer, uv)), ink),
              inputBuffer, blendFactor(uv[1]), texture2D(inputBuffer, uv))

----------------------------------------------------------------------------
(* Inputs *)

\* the atlas holds SIZE x SIZE cells
AtlasCapacity == SIZE * SIZE

\* A character set of n UTF-16 code units starting at "0" (48): "0", "01", "012", ...
\* (symbols repeat once n exceeds AlphabetSize)
MkChars(n) == [k \in 1..n |-> 48 + ((k - 1) % AlphabetSize)]

\* Scene: useControls({ chars: " .,=mukund" })
DefaultChars == <<32, 46, 44, 61, 109, 117, 107, 117, 110, 100>>

Lengths == (0..MaxLen) \cup {AtlasCapacity, AtlasCapacity + 1}
CharacterSets == {MkChars(n) : n \in Lengths} \cup {DefaultChars}

Resolutions == {<<440, 220>>}

Grey(k) == vec4(Rat(k, GreyMax), Rat(k, GreyMax), Rat(k, GreyMax), float(1))
MidGrey == vec4(Rat(1, 2), Rat(1, 2), Rat(1, 2), float(1))
Solids == {Solid(Grey(k)) : k \in 0..GreyMax}
            \cup {Solid(vec4(float(1), float(0), float(0), float(1))),
                  Solid(vec4(float(0), float(1), float(0), Rat(1, 2)))}

XS == {Rat(i, UvSteps) : i \in 0..UvSteps} \cup {transitionStart, Rat(1, 2), transitionEnd}
YS == {Rat(j, UvStepsY) : j \in 0..UvStepsY}
XFew == {float(0), transitionStart, Rat(1, 2), transitionEnd, float(1)}

YFew == {Rat(1, 4), Rat(1, 2)}

\* the fragments evaluated: every sample point for the mid-grey image, every
\* column for the ramp, the points around the wipe band for every solid image
FragmentInputs ==
    ({Solid(MidGrey)} \X (XS \X YS))
        \cup ({Ramp} \X (XS \X YFew))
        \cup (Solids \X (XFew \X {Rat(1, 2)}))

\* glyph coverage of an atlas texel inside a drawn cell: background or stroke
Inks == {float(0), float(1)}

----------------------------------------------------------------------------
(* RotatingMesh *)

\* Angles are integers, in hundredths of a radian; rotationSpeed is in units of
\* 0.66 rad/s and a frame's delta in units of 1/66 s, so that speed * delta is
\* an angle.  Vectors {x, y, z} are triples.
vec3(x, y, z) == <<x, y, z>>
Axes == 1..3

\* accumulation that does not look at rotationOn
accumulateAlways(m, delta) ==
    [a \in Axes |-> m.accumulatedRotation[a] + m.rotationSpeed[a] * delta]

\* lines 328-332: if (rotationOn) accumulatedRotation.current.{x,y,z} += rotationSpeed.{x,y,z} * delta
accumulate(m, delta) ==
    IF m.rotationOn
    THEN [a \in Axes |-> m.accumulatedRotation[a] + m.rotationSpeed[a] * delta]
    ELSE m.accumulatedRotation

\* the useFrame callback of RotatingMesh, ref.current being the mounted mesh
useFrame(m, delta) ==
    LET acc == accumulate(m, delta)
    IN  [m EXCEPT !.accumulatedRotation = acc,
                  !.rotation = [a \in Axes |-> acc[a] + m.manualRotation[a]],
                  !.event = "frame"]

\* useEffect(() => { accumulatedRotation.current = { x: 0, y: 0, z: 0 } }, [resetTrigger])
resetEffect(m) == [m EXCEPT !.accumulatedRotation = vec3(0, 0, 0)]

\* RotatingMesh after its first render and effect, with the controls' defaults:
\* rotationOn true, speed (0.66, 0.66, 0), rotX = rotY = rotZ = 0, resetCount 0
MeshMount ==
    [rotationOn          |-> TRUE,
     rotationSpeed       |-> vec3(1, 1, 0),
     manualRotation      |-> vec3(0, 0, 0),
     resetTrigger        |-> 0,
     accumulatedRotation |-> vec3(0, 0, 0),
     rotation            |-> vec3(0, 0, 0),
     event               |-> "mount"]

\* values the controls are moved to
Speeds == {vec3(1, 1, 0), vec3(-1, 0, 2)}
ManualRotations == {vec3(0, 0, 0), vec3(10, -20, 0)}
Deltas == {1, 2}

----------------------------------------------------------------------------
(* Scene: the host *)

NoEffect == [none |-> "effect"]
NoFrag == [none |-> "fragment"]

\* what Scene asks of the effect besides the character set: the literals of its
\* `new AsciiEffect(...)` call; the shader's boundarySize is the only band width
SceneConfig ==
    [fontSize |-> 54, cellSize |-> 22, color |-> "#ffffff", invert |-> FALSE,
     transitionBoundaryWidth |-> boundarySize]

\* useMemo without a dependency array: every render is a new computation
depsChangedAlways(prev, next) == TRUE

\* useMemo(factory, [chars]): the factory runs again when the dependency differs
\* from the one of the previous render
depsChanged(prev, next) == prev # next

\* new AsciiEffect({ characters: chars, fontSize: 54, cellSize: 22, color: "#ffffff", invert: false })
SceneOptions(c) ==
    [characters |-> c, fontSize |-> 54, cellSize |-> 22, color |-> "#ffffff",
     invert |-> FALSE]

\* One render of Scene in which useMemo's dependency [chars] is new: the factory
\* runs `new AsciiEffect(...)`.  No try/catch or error boundary surrounds it, so
\* an exception leaves the render and the tree is unmounted.
SceneRender(c, context2d) ==
    LET build == AsciiEffect(SceneOptions(c), context2d)
    IN  /\ chars' = c
        /\ lastBuild' = Outcome(build)
        /\ effect' = IF build.returned THEN build.object ELSE NoEffect
        /\ scene' = IF build.returned THEN "mounted" ELSE "crashed"

\* One render of Scene with the `chars` control at c: the memoised effect is
\* kept unless the dependency changed.
Render(c, context2d) ==
    IF depsChanged(chars, c)
    THEN /\ memo.builds < MaxBuilds
         /\ SceneRender(c, context2d)
         /\ memo' = [builds |-> memo.builds + 1,
                     edits  |-> memo.edits + (IF c # chars THEN 1 ELSE 0)]
    ELSE /\ chars' = c
         /\ UNCHANGED <<effect, lastBuild, scene, memo>>

\* the first render, with the control's default value
Init ==
    /\ \E context2d \in BOOLEAN :
          LET build == AsciiEffect(SceneOptions(DefaultChars), context2d)
          IN  /\ chars = DefaultChars
              /\ lastBuild = Outcome(build)
              /\ effect = IF build.returned THEN build.object ELSE NoEffect
              /\ scene = IF build.returned THEN "mounted" ELSE "crashed"
    /\ resolution \in Resolutions
    /\ frag = NoFrag
    /\ memo = [builds |-> 1, edits |-> 0]
    /\ config = SceneConfig
    /\ mesh = MeshMount

\* the user edits the `chars` control: Scene re-renders with the new value
\* (JavaScript runs between the composer's passes, never inside one)
SetChars(c, context2d) ==
    /\ scene = "mounted"
    /\ frag = NoFrag
    /\ c # chars
    /\ Render(c, context2d)
    /\ UNCHANGED <<resolution, frag, config, mesh>>

\* Scene renders again for another reason (another control, a state update)
\* with `chars` as it was
Rerender(context2d) ==
    /\ scene = "mounted"
    /\ frag = NoFrag
    /\ Render(chars, context2d)
    /\ UNCHANGED <<resolution, frag, config, mesh>>

\* the composer runs the effect's fragment stage for one fragment of a frame
Frame(inputBuffer, uv, ink) ==
    /\ scene = "mounted"
    /\ effect # NoEffect
    /\ frag = NoFrag
    /\ frag' = mainImage(effect, resolution, inputBuffer, uv, ink)
    /\ UNCHANGED <<chars, effect, scene, lastBuild, resolution, memo, config, mesh>>

\* the frame is presented: outputColor has been written to the screen
Present ==
    /\ frag # NoFrag
    /\ frag' = NoFrag
    /\ UNCHANGED <<chars, effect, scene, lastBuild, resolution, memo, config, mesh>>

Next ==
    \/ \E c \in CharacterSets, context2d \in BOOLEAN : SetChars(c, context2d)
    \/ \E context2d \in BOOLEAN : Rerender(context2d)
    \/ \E in \in FragmentInputs, ink \in Inks : Frame(in[1], in[2], ink)
    \/ Present

Spec == Init /\ [][Next]_vars

----------------------------------------------------------------------------
(* The effect and the shader on their own: options drawn from bounded sets *)

EffectOptions ==
    {[characters |-> c, fontSize |-> 54, cellSize |-> 22, color |-> "#ffffff",
      invert |-> inv] : c \in CharacterSets, inv \in BOOLEAN}

ShaderInit ==
    /\ \E opts \in EffectOptions :
          LET build == AsciiEffect(opts, TRUE)
          IN  /\ chars = opts.characters
              /\ lastBuild = Outcome(build)
              /\ effect = build.object
              /\ config = [SceneConfig EXCEPT !.invert = opts.invert]
    /\ scene = "mounted"
    /\ resolution \in Resolutions
    /\ frag = NoFrag
    /\ memo = [builds |-> 1, edits |-> 0]
    /\ mesh = MeshMount

\* every column of the ramp, the points around the wipe band for every solid image
ShaderInputs ==
    ({Ramp} \X (XS \X YFew)) \cup (Solids \X (XFew \X {Rat(1, 2)}))

ShaderNext ==
    \/ \E in \in ShaderInputs, ink \in Inks : Frame(in[1], in[2], ink)
    \/ Present

ShaderSpec == ShaderInit /\ [][ShaderNext]_vars

----------------------------------------------------------------------------
(* A host that reconfigures the effect: the configuration it asks for is drawn
   from bounded sets and handed to the only entry point the class has, the
   constructor's options. *)

Widths == {boundarySize, Rat(1, 5)}
Tints == {"#ffffff", "#00ff00"}

Configs ==
    {[fontSize |-> fs, cellSize |-> cs, color |-> "#ffffff", invert |-> inv,
      transitionBoundaryWidth |-> w] :
        fs \in {54, 40}, cs \in {22, 60}, inv \in BOOLEAN, w \in Widths}

\* constructor({ characters, fontSize, cellSize, color, invert }): the five
\* options the constructor destructures; any other key of the object is ignored
OptionsOf(cfg, c) ==
    [characters |-> c, fontSize |-> cfg.fontSize, cellSize |-> cfg.cellSize,
     color |-> cfg.color, invert |-> cfg.invert]

ConfigInit ==
    /\ chars = DefaultChars
    /\ config \in Configs
    /\ LET build == AsciiEffect(OptionsOf(config, chars), TRUE)
       IN  /\ lastBuild = Outcome(build)
           /\ effect = build.object
    /\ scene = "mounted"
    /\ resolution \in Resolutions
    /\ frag = NoFrag
    /\ memo = [builds |-> 1, edits |-> 0]
    /\ mesh = MeshMount

\* the host changes the configuration between two frames and constructs the
\* effect anew with it
Configure(cfg) ==
    /\ scene = "mounted"
    /\ frag = NoFrag
    /\ cfg # config
    /\ config' = cfg
    /\ LET build == AsciiEffect(OptionsOf(cfg, chars), TRUE)
       IN  /\ lastBuild' = Outcome(build)
           /\ effect' = build.object
    /\ UNCHANGED <<chars, scene, resolution, frag, memo, mesh>>

ConfigNext ==
    \/ \E cfg \in Configs : Configure(cfg)
    \/ \E in \in ShaderInputs, ink \in Inks : Frame(in[1], in[2], ink)
    \/ Present

ConfigSpec == ConfigInit /\ [][ConfigNext]_vars

----------------------------------------------------------------------------
(* RotatingMesh under its controls: the Rotation and Transform panels, the
   'Snap to Sliders' button and the frame loop *)

MeshInit ==
    /\ LET build == AsciiEffect(SceneOptions(DefaultChars), TRUE)
       IN  /\ chars = DefaultChars
           /\ lastBuild = Outcome(build)
           /\ effect = build.object
    /\ scene = "mounted"
    /\ resolution \in Resolutions
    /\ frag = NoFrag
    /\ memo = [builds |-> 1, edits |-> 0]
    /\ config = SceneConfig
    /\ mesh = MeshMount

sceneVars == <<chars, effect, scene, lastBuild, resolution, frag, memo, config>>

\* a frame of the render loop calls the useFrame callback with the elapsed time
MeshFrame(delta) ==
    /\ \A a \in Axes : accumulate(mesh, delta)[a] \in (-MaxAngle)..MaxAngle
    /\ mesh' = useFrame(mesh, delta)
    /\ UNCHANGED sceneVars

\* the 'Rotation On' checkbox
SetRotationOn(on) ==
    /\ on # mesh.rotationOn
    /\ mesh' = [mesh EXCEPT !.rotationOn = on, !.event = "control"]
    /\ UNCHANGED sceneVars

\* the Speed X / Y / Z sliders
SetRotationSpeed(speed) ==
    /\ speed # mesh.rotationSpeed
    /\ mesh' = [mesh EXCEPT !.rotationSpeed = speed, !.event = "control"]
    /\ UNCHANGED sceneVars

\* the Rot X / Y / Z sliders
SetManualRotation(rot) ==
    /\ rot # mesh.manualRotation
    /\ mesh' = [mesh EXCEPT !.manualRotation = rot, !.event = "control"]
    /\ UNCHANGED sceneVars

\* 'Snap to Sliders': setResetCount(c => c + 1); RotatingMesh renders with the
\* new resetTrigger and its effect zeroes the accumulator
SnapToSliders ==
    /\ mesh.resetTrigger < MaxResets
    /\ mesh' = resetEffect([mesh EXCEPT !.resetTrigger = @ + 1, !.event = "snap"])
    /\ UNCHANGED sceneVars

MeshNext ==
    \/ \E delta \in Deltas : MeshFrame(delta)
    \/ \E on \in BOOLEAN : SetRotationOn(on)
    \/ \E speed \in Speeds : SetRotationSpeed(speed)
    \/ \E rot \in ManualRotations : SetManualRotation(rot)
    \/ SnapToSliders

MeshSpec == MeshInit /\ [][MeshNext]_vars

----------------------------------------------------------------------------
(* Properties *)

\* the atlas grid cell <<column, row from the top>> a fillText call is centred in
CellOf(glyph) == <<glyph.x \div step, glyph.y \div step>>
OnCanvas(glyph) == glyph.x \in 0..(size - 1) /\ glyph.y \in 0..(size - 1)
Built == effect # NoEffect /\ effect.uCharacters # NULL

\* C1: a build of a character set of length N >= 1 reports glyph count N, and
\* for N <= 256 symbol i is drawn on the canvas, centred in grid cell
\* (i mod 16, i div 16 from the top), no two indices sharing a cell.
C1_BuildLayout ==
    (Built /\ Len(chars) >= 1) =>
        LET N == Len(chars)
            glyphs == effect.uCharacters.glyphs
        IN  /\ effect.uCharactersCount = N
            /\ Len(glyphs) = N
            /\ N <= 256 =>
                /\ \A i \in 0..(N - 1) :
                      /\ glyphs[i + 1].char = chars[i + 1]
                      /\ OnCanvas(glyphs[i + 1])
                      /\ CellOf(glyphs[i + 1]) = <<i % 16, i \div 16>>
                      /\ 2 * glyphs[i + 1].x = 64 * (i % 16) + 64 * ((i % 16) + 1)
                      /\ 2 * glyphs[i + 1].y = 64 * (i \div 16) + 64 * ((i \div 16) + 1)
                /\ Cardinality({CellOf(glyphs[k]) : k \in 1..N}) = N

\* C1 witness: a full atlas, 256 symbols, the last one in the bottom-right cell
C1_Witness ==
    /\ Built
    /\ Len(chars) = 256
    /\ CellOf(effect.uCharacters.glyphs[256]) = <<15, 15>>

\* C2 (as claimed): for a glyph count N >= 20 scaleFactor is 1 and the final
\* index is floor((N-1)*grey).
C2_NoCompensationFrom20 ==
    (frag # NoFrag /\ frag.count >= 20) =>
        /\ frag.scaleFactor = float(1)
        /\ frag.characterIndex = floor(Mul(float(frag.count - 1), frag.greyscaled))

\* grey values the selection is compared at
GreyLevels == {Rat(k, GreyMax) : k \in 0..GreyMax} \cup XS

\* C3: for 1 <= N < 20 the final index is non-decreasing in grey: every grey
\* below the fragment's selects an index no larger, every grey above it an
\* index no smaller.
C3_MonotoneBelow20 ==
    (frag # NoFrag /\ frag.count >= 1 /\ frag.count < 20) =>
        \A g \in GreyLevels :
            /\ Le(g, frag.greyscaled) =>
                  Le(characterIndex(frag.count, g), frag.characterIndex)
            /\ Le(frag.greyscaled, g) =>
                  Le(frag.characterIndex, characterIndex(frag.count, g))

\* C3 witness: a 10-symbol set, a white cell selecting the last glyph, above the
\* glyph selected for mid-grey
C3_Witness ==
    /\ frag # NoFrag
    /\ frag.count = 10
    /\ frag.greyscaled = float(1)
    /\ frag.characterIndex = float(9)
    /\ Lt(characterIndex(frag.count, Rat(1, 2)), frag.characterIndex)

\* the luminance of the fragment's cell, before inversion
Luminance(f) == greyscale(f.pixelized).r

\* the index mainImage selects for a cell of luminance lum
SelectedIndex(count, invert, lum) == characterIndex(count, invertGrey(invert, lum))

\* C4: the index selected with invert = true for luminance grey is the index
\* selected with invert = false for luminance 1 - grey.
C4_InvertMirrors ==
    (frag # NoFrag /\ frag.count >= 1 /\ frag.invert) =>
        frag.characterIndex
            = SelectedIndex(frag.count, FALSE, Sub(float(1), Luminance(frag)))

\* C4 witness: an inverted fragment of a dark cell selecting a glyph other than
\* the one its own luminance would select uninverted
C4_Witness ==
    /\ frag # NoFrag
    /\ frag.invert
    /\ frag.count >= 2
    /\ Lt(Luminance(frag), Rat(1, 2))
    /\ frag.characterIndex # SelectedIndex(frag.count, FALSE, Luminance(frag))

\* 0.5 - 0.1/16 and 0.5 + 0.1/8
ClaimedStart == Rat(79, 160)
ClaimedEnd == Rat(82, 160)

\* C5: left of the band (uv.x <= 0.5 - 0.1/16) the output is the untouched
\* input sample at uv, right of it (uv.x >= 0.5 + 0.1/8) the glyph-mosaic colour.
C5_WipeSides ==
    frag # NoFrag =>
        /\ Le(frag.uv[1], ClaimedStart) =>
              /\ frag.blendFactor = float(0)
              /\ frag.outputColor = frag.originalColor
        /\ Le(ClaimedEnd, frag.uv[1]) =>
              /\ frag.blendFactor = float(1)
              /\ frag.outputColor = frag.asciiCharacter

\* C5 witness: a fragment exactly on the right edge of the band whose mosaic
\* colour differs from the untouched input
C5_Witness ==
    /\ frag # NoFrag
    /\ frag.uv[1] = ClaimedEnd
    /\ frag.asciiCharacter # frag.originalColor
    /\ frag.outputColor = frag.asciiCharacter

\* C6 (as claimed): at uv.x = 0.5 the blend factor is about 1/2 (within 1/10).
C6_NearEvenAtHalf ==
    (frag # NoFrag /\ frag.uv[1] = Rat(1, 2)) =>
        /\ Le(Rat(4, 10), frag.blendFactor)
        /\ Le(frag.blendFactor, Rat(6, 10))

\* C6 (amended): at uv.x = 0.5 the blend factor is 7/27, so the output is
\* 20/27 of the untouched input plus 7/27 of the glyph-mosaic colour.
C6_BlendAtHalf ==
    (frag # NoFrag /\ frag.uv[1] = Rat(1, 2)) =>
        /\ frag.blendFactor = Rat(7, 27)
        /\ \A ch \in {"r", "g", "b", "a"} :
              frag.outputColor[ch]
                = Add(Mul(Rat(20, 27), frag.originalColor[ch]),
                      Mul(Rat(7, 27), frag.asciiCharacter[ch]))

\* C6 witness: a fragment at uv.x = 0.5 whose mosaic colour differs from the input
C6_Witness ==
    /\ frag # NoFrag
    /\ frag.uv[1] = Rat(1, 2)
    /\ frag.asciiCharacter # frag.originalColor

\* C7 (as claimed): no effect with uCharactersCount = 0 is ever constructed
\* and handed to the fragment stage; the empty set is rejected with an error.
C7_EmptyRejected ==
    /\ effect # NoEffect => effect.uCharactersCount # 0
    /\ Len(chars) = 0 => (~lastBuild.returned /\ lastBuild.error # NoError)

\* C8: a build that cannot get a 2D context throws to its caller and yields no
\* texture: none is returned and none is assigned to uCharacters.
C8_NoContextNoAtlas ==
    ~lastBuild.context =>
        /\ ~lastBuild.returned
        /\ lastBuild.error = "Context not available"
        /\ ~lastBuild.texture
        /\ ~lastBuild.assigned

\* C8 witness: a rebuild for an edited character set found no context
C8_Witness ==
    /\ ~lastBuild.context
    /\ chars # DefaultChars

\* C9 (as claimed): after a rebuild for a changed character set fails, frames
\* are still rendered, with an atlas built earlier.
C9_FallbackAfterFailure ==
    (~lastBuild.returned /\ chars # DefaultChars) =>
        /\ scene = "mounted"
        /\ Built

\* C10: character set "01", cell size 22, resolution 440 x 220, invert off,
\* solid mid-grey input: 20 x 10 cells, rawIndex 0, scaleFactor 1, index 0,
\* and the glyph is looked up in the atlas cell of symbol "0".
C10_MidGreyScenario ==
    (/\ frag # NoFrag
     /\ chars = <<48, 49>>
     /\ effect.uCellSize = 22
     /\ resolution = <<440, 220>>
     /\ ~frag.invert
     /\ frag.pixelized = MidGrey) =>
        /\ frag.cell = <<float(20), float(10)>>
        /\ frag.rawIndex = float(0)
        /\ frag.scaleFactor = float(1)
        /\ frag.characterIndex = float(0)
        /\ frag.atlasCell = <<0, 0>>
        /\ frag.drawn = {0}
        /\ effect.uCharacters.glyphs[1].char = 48

\* C10 witness: the scenario's fragment in the last cell of the 20 x 10 grid
C10_Witness ==
    /\ frag # NoFrag
    /\ chars = <<48, 49>>
    /\ resolution = <<440, 220>>
    /\ frag.pixelized = MidGrey
    /\ frag.pixelizedUV = <<Rat(39, 40), Rat(19, 20)>>
    /\ frag.characterIndex = float(0)

\* C11: the atlas is rebuilt exactly when the configured character set changes:
\* the factory has run once for the first render and once more for every change
\* of `chars`, never for a render or a frame that leaves it unchanged; and every
\* rendered fragment uses a count and an atlas made from the configured set.
C11_RebuildOnChange ==
    /\ memo.builds = memo.edits + 1
    /\ frag # NoFrag =>
          /\ Built
          /\ frag.count = Len(chars)
          /\ effect.uCharactersCount = Len(chars)
          /\ Len(effect.uCharacters.glyphs) = Len(chars)
          /\ \A k \in 1..Len(chars) : effect.uCharacters.glyphs[k].char = chars[k]

\* C11 witness: a fragment rendered after the character set was edited once, with
\* the new set's count
C11_Witness ==
    /\ memo.edits = 1
    /\ memo.builds = 2
    /\ chars # DefaultChars
    /\ frag # NoFrag
    /\ frag.count = Len(chars)

\* C12: a fragment stage in flight never observes an absent or partly drawn
\* atlas: the installed effect's uCharacters is a texture, it holds every
\* fillText call of the build of the configured set, it is exactly what
\* createCharactersTexture returned (nothing has written to it since), and the
\* pass was computed with that effect (no swap happened inside the pass).
C12_FrozenAtlas ==
    frag # NoFrag =>
        /\ effect # NoEffect
        /\ effect.uCharacters # NULL
        /\ lastBuild.returned /\ lastBuild.assigned
        /\ Len(effect.uCharacters.glyphs) = effect.uCharactersCount
        /\ \A k \in 1..Len(chars) : effect.uCharacters.glyphs[k] = fillText(chars, k - 1)
        /\ effect.uCharacters = createCharactersTexture(chars, 54, TRUE).texture
        /\ frag.count = effect.uCharactersCount
        /\ frag.drawn \subseteq 0..(effect.uCharactersCount - 1)

\* C12 witness: a fragment that read a drawn cell of a replacement atlas (the
\* second build of the run)
C12_Witness ==
    /\ frag # NoFrag
    /\ memo.builds = 2
    /\ lastBuild.assigned
    /\ frag.drawn # {}
    /\ frag.texel = float(1)

\* glyph indices the lookup is evaluated at, inside and beyond the atlas
WrapIndices == {0, 15, 16, 255, 256, 257, 271, 272, 511, 512, 4095, 4096, 65535}

\* the atlas grid cell <<column, row from the top>> that the shader reads for
\* glyph index i at the fragment f
LookupCell(f, i) ==
    LET t == texelOf(lookupUV(f.cell, f.uv, float(i)))
    IN  <<t[1] \div step, t[2] \div step>>

\* C13: a character set longer than 256 builds without raising and reports its
\* length as the count; and every non-negative glyph index, also one >= the
\* count or >= 256, is looked up in the cell of the 16 x 16 grid in column
\* index mod 16 and row (index div 16) mod 16.
C13_AliasingDefined ==
    /\ Len(chars) > AtlasCapacity =>
          /\ lastBuild.returned
          /\ lastBuild.error = NoError
          /\ Built
          /\ effect.uCharactersCount = Len(chars)
    /\ frag # NoFrag =>
          /\ frag.characterIndex[1] >= 0 =>
                LET i == frag.characterIndex[1]
                IN  /\ frag.characterIndex[2] = 1
                    /\ frag.atlasCell = <<i % 16, (i \div 16) % 16>>
          /\ \A i \in WrapIndices : LookupCell(frag, i) = <<i % 16, (i \div 16) % 16>>

\* C13 witness: a 257-symbol set, a fragment whose index is beyond the atlas
\* (>= 256) and was read from a cell of the grid
C13_Witness ==
    /\ Len(chars) = AtlasCapacity + 1
    /\ frag # NoFrag
    /\ frag.characterIndex[1] >= AtlasCapacity
    /\ frag.atlasCell[1] \in 0..15 /\ frag.atlasCell[2] \in 0..15
    /\ frag.atlasCell = <<frag.characterIndex[1] % 16,
                          (frag.characterIndex[1] \div 16) % 16>>

\* C14: the fragment's result depends only on the input image, the resolution,
\* the atlas, the cell size, the invert flag and uv: evaluated again from those
\* alone, under any tint colour and whatever was rendered before, mainImage
\* gives the same record; and a build from the same characters and font size
\* gives the same count and glyph layout whatever the other options are.
C14_Deterministic ==
    /\ frag # NoFrag =>
          \A tint \in Tints :
              mainImage([effect EXCEPT !.uColor = tint], resolution,
                        frag.inputBuffer, frag.uv, frag.texel) = frag
    /\ Built =>
          \A cfg \in Configs :
              cfg.fontSize = config.fontSize =>
                  LET again == AsciiEffect(OptionsOf(cfg, chars), TRUE)
                  IN  /\ again.object.uCharactersCount = effect.uCharactersCount
                      /\ again.texture = effect.uCharacters

\* C14 witness: a fragment showing a glyph stroke with a visible colour, after
\* the configuration was changed from another one
C14_Witness ==
    /\ frag # NoFrag
    /\ frag.texel = float(1)
    /\ frag.asciiCharacter.r # float(0)
    /\ config.cellSize = 60
    /\ config.invert

\* C15 (as claimed): a fragment is computed with the configured cell size,
\* invert flag and font size, and with the wipe band of the configured
\* boundary width w, from 0.5 - w/16 to 0.5 + w/8.
C15_ConfigTakesEffect ==
    frag # NoFrag =>
        LET w == config.transitionBoundaryWidth
        IN  /\ frag.cell = vec2(Div(float(resolution[1]), float(config.cellSize)),
                                Div(float(resolution[2]), float(config.cellSize)))
            /\ frag.invert = config.invert
            /\ effect.uCharacters.font = config.fontSize
            /\ frag.blendFactor =
                  smoothstep(Sub(Rat(1, 2), Div(w, float(16))),
                             Add(Rat(1, 2), Div(w, float(8))), frag.uv[1])

\* C16 (as claimed): below 20 glyphs the compensated index can leave the valid
\* range: for some N in 1..19 and some grey in [0,1] (a grey level, or the grey
\* of the fragment just rendered) the final characterIndex is greater than N - 1.
C16_OverflowBelow20 ==
    frag # NoFrag =>
        \E N \in 1..19 : \E g \in GreyLevels \cup {frag.greyscaled} :
            Lt(float(N - 1), characterIndex(N, g))

\* the fillText calls of a build that fills the atlas, one symbol per cell
FullAtlas == createCharactersTexture(MkChars(AtlasCapacity), 54, TRUE).texture.glyphs

\* the position of the fragment inside its mosaic cell, in cells
InCell(f) ==
    vec2(Sub(Mul(f.uv[1], f.cell[1]), floor(Mul(f.uv[1], f.cell[1]))),
         Sub(Mul(f.uv[2], f.cell[2]), floor(Mul(f.uv[2], f.cell[2]))))

\* C17: the builder and the shader agree on where glyph i is: at every fragment
\* position, for every index i in 0..255, the address charUV (wrapped, and with
\* the canvas' vertical flip) reads a texel of the grid cell (i mod 16, i div 16
\* from the top), the cell createCharactersTexture centred symbol i in; and the
\* glyph the fragment selected, if the set has it, is the one drawn in the cell
\* that was read.  (The address depends on the fragment's position and the cell
\* size only, so the 256 indices are evaluated at the fragments of one image,
\* the ramp, which has every sampled position.)
C17_BuilderShaderAgree ==
    frag # NoFrag =>
        /\ frag.inputBuffer = Ramp =>
              \A i \in 0..(AtlasCapacity - 1) :
                  /\ CellOf(FullAtlas[i + 1]) = <<i % 16, i \div 16>>
                  /\ LookupCell(frag, i) = CellOf(FullAtlas[i + 1])
        /\ frag.characterIndex[1] \in 0..(frag.count - 1) =>
              /\ frag.atlasCell = CellOf(effect.uCharacters.glyphs[frag.characterIndex[1] + 1])
              /\ frag.drawn = {frag.characterIndex[1]}

\* C17 witness: a fragment strictly inside its mosaic cell on both axes, of
\* 60-pixel cells, that read the cell of the glyph it selected
C17_Witness ==
    /\ frag # NoFrag
    /\ frag.inputBuffer = Ramp
    /\ config.cellSize = 60
    /\ InCell(frag)[1] # float(0)
    /\ InCell(frag)[2] # float(0)
    /\ frag.characterIndex[1] > 0
    /\ frag.drawn = {frag.characterIndex[1]}

\* the index <<column, row>> of the mosaic cell that holds the point p
MosaicCell(f, p) == vec2(floor(Mul(p[1], f.cell[1])), floor(Mul(p[2], f.cell[2])))

\* other points of the fragment's mosaic cell: its lower corner and the points
\* a quarter and three quarters of a cell from it, on each axis
SameCell(f) ==
    {vec2(Div(Add(MosaicCell(f, f.uv)[1], tx), f.cell[1]),
          Div(Add(MosaicCell(f, f.uv)[2], ty), f.cell[2])) :
        tx \in {float(0), Rat(1, 4), Rat(3, 4)}, ty \in {float(0), Rat(1, 4), Rat(3, 4)}}

\* the fragment's pixelizedUV is the centre of the cell that holds uv
Centred(f) ==
    /\ MosaicCell(f, f.pixelizedUV) = MosaicCell(f, f.uv)
    /\ Sub(Mul(f.pixelizedUV[1], f.cell[1]), MosaicCell(f, f.uv)[1]) = Rat(1, 2)
    /\ Sub(Mul(f.pixelizedUV[2], f.cell[2]), MosaicCell(f, f.uv)[2]) = Rat(1, 2)

\* every other point of the fragment's cell gets the same pixelizedUV, the same
\* sample, the same glyph index and the same mosaic alpha, pixelized.a
CellAgrees(f) ==
    \A p \in SameCell(f) :
        LET g == selectGlyph(effect, quantize(effect, resolution, f.inputBuffer, p))
        IN  /\ MosaicCell(f, p) = MosaicCell(f, f.uv)
            /\ g.pixelizedUV = f.pixelizedUV
            /\ g.pixelized = f.pixelized
            /\ g.characterIndex = f.characterIndex
            /\ g.pixelized.a = f.asciiCharacter.a

InUnitSquare(p) ==
    /\ Le(float(0), p[1]) /\ Le(p[1], float(1))
    /\ Le(float(0), p[2]) /\ Le(p[2], float(1))

RotationStep ==
    /\ mesh'.event = "frame" =>
          /\ \A a \in Axes :
                mesh'.rotation[a] = mesh'.accumulatedRotation[a] + mesh'.manualRotation[a]
          /\ IF mesh.rotationOn
             THEN \E delta \in Deltas : \A a \in Axes :
                      mesh'.accumulatedRotation[a] =
                          mesh.accumulatedRotation[a] + mesh.rotationSpeed[a] * delta
             ELSE mesh'.accumulatedRotation = mesh.accumulatedRotation
          /\ (~mesh.rotationOn /\ mesh.accumulatedRotation = vec3(0, 0, 0)) =>
                mesh'.rotation = mesh.manualRotation
    /\ mesh'.resetTrigger # mesh.resetTrigger =>
          mesh'.accumulatedRotation = vec3(0, 0, 0)
    /\ mesh'.event = "control" =>
          mesh'.accumulatedRotation = mesh.accumulatedRotation

\* C19: on every frame the mesh rotation is the accumulated rotation plus the
\* manual slider offset on each axis; a frame adds rotationSpeed * delta to the
\* accumulator when rotationOn is true and leaves it alone when false; the
\* reset trigger zeroes the accumulator and moving a control does not touch it,
\* so a frame rendered after the reset with rotationOn false shows exactly the
\* manual rotation.
C19_RotationAccumulator == [][RotationStep]_vars

\* C19 witness: after a reset, a frame rendered with rotationOn false and the
\* sliders off zero shows the sliders' rotation
C19_Witness ==
    /\ mesh.event = "frame"
    /\ mesh.resetTrigger >= 1
    /\ ~mesh.rotationOn
    /\ mesh.accumulatedRotation = vec3(0, 0, 0)
    /\ mesh.manualRotation = vec3(10, -20, 0)
    /\ mesh.rotation = mesh.manualRotation

\* the fragment selected a glyph of the configured set and read the cell the
\* builder drew it in
SelectsPopulated(f) ==
    /\ f.characterIndex[2] = 1
    /\ f.characterIndex[1] \in 0..(f.count - 1)
    /\ f.drawn = {f.characterIndex[1]}
    /\ effect.uCharacters.glyphs[f.characterIndex[1] + 1].char = chars[f.characterIndex[1] + 1]
    /\ \A g \in GreyLevels :
          /\ characterIndex(f.count, g)[2] = 1
          /\ characterIndex(f.count, g)[1] \in 0..(f.count - 1)

\* C20 (as claimed): for 1 <= N <= 20 the final index is an integer in 0..N-1,
\* a cell the builder populated, and index N-1 is selected only when the
\* (possibly inverted) grey is 1.
C20_IndexInRange ==
    (frag # NoFrag /\ frag.count \in 1..20) =>
        /\ SelectsPopulated(frag)
        /\ frag.characterIndex = float(frag.count - 1) => frag.greyscaled = float(1)
        /\ \A g \in GreyLevels :
              characterIndex(frag.count, g) = float(frag.count - 1) => g = float(1)

\* C20 (amended): for 1 <= N <= 20 the final index is an integer in 0..N-1, a
\* cell the builder populated; for N >= 2 index N-1 is selected only when the
\* (possibly inverted) grey is 1, and for N = 1 index 0 = N-1 is selected for
\* every grey.
C20_IndexInRangeFrom2 ==
    (frag # NoFrag /\ frag.count \in 1..20) =>
        /\ SelectsPopulated(frag)
        /\ frag.count >= 2 =>
              /\ frag.characterIndex = float(frag.count - 1) => frag.greyscaled = float(1)
              /\ \A g \in GreyLevels :
                    characterIndex(frag.count, g) = float(frag.count - 1) => g = float(1)
        /\ frag.count = 1 =>
              /\ frag.characterIndex = float(0)
              /\ \A g \in GreyLevels : characterIndex(frag.count, g) = float(0)

\* C20 witness: 20 glyphs, inverted, a black cell: grey 1 selects the last
\* glyph, index 19, and its cell is read
C20_Witness ==
    /\ frag # NoFrag
    /\ frag.count = 20
    /\ frag.invert
    /\ frag.greyscaled = float(1)
    /\ frag.characterIndex = float(19)
    /\ frag.drawn = {19}

====
